---- MODULE Spec2Model ----
(***************************************************************************)
(* Multi-frame spectral filters of DeepFilterNet/df/multiframe.py.         *)
(*                                                                         *)
(* Tensors are functions from index tuples (0-based, as in the code) to    *)
(* values.  A complex value is <<a, b, d>>, the exact number (a + b*i)/d   *)
(* with d > 0 and gcd(a, b, d) = 1; <<0, 0, 0>> is a non-finite value.     *)
(* A real tensor with a trailing axis of length 2 (torch.view_as_real) is  *)
(* the same pair of components, so view_as_real / view_as_complex keep the *)
(* value.  Arithmetic is exact (floating-point rounding is not modelled).  *)
(***************************************************************************)
EXTENDS Integers, Sequences, FiniteSets, TLC

\* ------------------------------------------------------------------ bounds
MaxT == 2
MaxFrame == 3
MaxSeed == 1
MaxRows == 2
MaxLen == 4
MaxStep == 2

Batches == {1, 2}
Chans == {1, 2}
Freqs == {1, 2}
NumFreqs == {1, 2}
EpsInvs == {4}

\* ------------------------------------------------------- complex arithmetic
Abs(x) == IF x < 0 THEN -x ELSE x

RECURSIVE Gcd(_, _)
Gcd(a, b) == IF b = 0 THEN a ELSE Gcd(b, a % b)

NaN == <<0, 0, 0>>

Norm(a, b, d) ==
    IF d = 0 THEN NaN
    ELSE LET s == IF d < 0 THEN -1 ELSE 1
             g == Gcd(Gcd(Abs(a), Abs(b)), Abs(d))
         IN  <<(s * a) \div g, (s * b) \div g, (s * d) \div g>>

Cx(a, b) == <<a, b, 1>>
Zero == Cx(0, 0)
One == Cx(1, 0)

\* over the least common denominator, which keeps the intermediate values small
CAdd(x, y) ==
    IF x[3] = 0 \/ y[3] = 0 THEN NaN
    ELSE LET g == Gcd(x[3], y[3])
             p == y[3] \div g
             q == x[3] \div g
         IN  Norm(x[1] * p + y[1] * q, x[2] * p + y[2] * q, x[3] * p)
CNeg(x) == <<-x[1], -x[2], x[3]>>
CSub(x, y) == CAdd(x, CNeg(y))
CMul(x, y) == Norm(x[1] * y[1] - x[2] * y[2], x[1] * y[2] + x[2] * y[1], x[3] * y[3])
CConj(x) == <<x[1], -x[2], x[3]>>
CReal(x) == Norm(x[1], 0, x[3])
CImag(x) == Norm(x[2], 0, x[3])
\* x / r for a real r (r[2] = 0)
CDivReal(x, r) == Norm(x[1] * r[3], x[2] * r[3], x[3] * r[1])
\* the complex value with real part re and imaginary part im (both real)
CPack(re, im) == CAdd(re, CMul(Cx(0, 1), im))

\* sum of g[n] for n in 0..k-1
RECURSIVE CSum(_, _)
CSum(g, k) == IF k = 0 THEN Zero ELSE CAdd(CSum(g, k - 1), g[k - 1])

\* ------------------------------------------------------------------ tensors
Idx4(s) == (0 .. s[1] - 1) \X (0 .. s[2] - 1) \X (0 .. s[3] - 1) \X (0 .. s[4] - 1)
Idx5(s) == (0 .. s[1] - 1) \X (0 .. s[2] - 1) \X (0 .. s[3] - 1) \X (0 .. s[4] - 1)
               \X (0 .. s[5] - 1)

\* v @@ <<>> is v: TLC then computes the elements once, when the tensor is made
Tensor(s, v) == [err |-> FALSE, shape |-> s, v |-> v @@ <<>>]
Error == [err |-> TRUE, shape |-> <<>>, v |-> <<>>]

Idx6(s) == (0 .. s[1] - 1) \X (0 .. s[2] - 1) \X (0 .. s[3] - 1) \X (0 .. s[4] - 1)
               \X (0 .. s[5] - 1) \X (0 .. s[6] - 1)

\* torch.view_as_real: [B, C, T, F] complex -> [B, C, T, F, 2] real
view_as_real(x) ==
    IF x.err THEN Error
    ELSE LET s == <<x.shape[1], x.shape[2], x.shape[3], x.shape[4], 2>>
         IN  Tensor(s, [i \in Idx5(s) |->
                 LET z == x.v[<<i[1], i[2], i[3], i[4]>>]
                 IN  IF i[5] = 0 THEN CReal(z) ELSE CImag(z)])

\* torch.view_as_complex: [B, C, T, F, 2] real -> [B, C, T, F] complex
view_as_complex(x) ==
    IF x.err THEN Error
    ELSE LET s == <<x.shape[1], x.shape[2], x.shape[3], x.shape[4]>>
         IN  Tensor(s, [i \in Idx4(s) |->
                 CPack(x.v[<<i[1], i[2], i[3], i[4], 0>>], x.v[<<i[1], i[2], i[3], i[4], 1>>])])

\* ------------------------------------------------------- MultiFrameModule
NoModule ==
    [variant |-> "none", num_freqs |-> 0, frame_size |-> 0, lookahead |-> 0,
     real |-> FALSE, pad |-> <<0, 0>>, need_unfold |-> FALSE, conj |-> FALSE,
     eps |-> Zero, training |-> FALSE]

\* a variant of __init__ that pads `lookahead` frames in front and the rest
\* behind
MultiFrameModule_init_swapped(variant, num_freqs, frame_size, lookahead, real) ==
    [variant |-> variant, num_freqs |-> num_freqs, frame_size |-> frame_size,
     lookahead |-> lookahead, real |-> real,
     pad |-> <<lookahead, frame_size - 1 - lookahead>>,
     need_unfold |-> frame_size > 1, conj |-> FALSE, eps |-> Zero,
     training |-> TRUE]

\* MultiFrameModule.__init__; nn.Module.__init__ sets training = True
MultiFrameModule_init(variant, num_freqs, frame_size, lookahead, real) ==
    [variant |-> variant, num_freqs |-> num_freqs, frame_size |-> frame_size,
     lookahead |-> lookahead, real |-> real,
     pad |-> <<frame_size - 1 - lookahead, lookahead>>,
     need_unfold |-> frame_size > 1, conj |-> FALSE, eps |-> Zero,
     training |-> TRUE]

DF_init(num_freqs, frame_size, lookahead, conj) ==
    [MultiFrameModule_init("DF", num_freqs, frame_size, lookahead, FALSE)
        EXCEPT !.conj = conj]

DFreal_init(num_freqs, frame_size, lookahead, conj) ==
    [MultiFrameModule_init("DFreal", num_freqs, frame_size, lookahead, TRUE)
        EXCEPT !.conj = conj]

\* the assert of CRM.__init__: NoModule stands for the AssertionError
CRM_init(num_freqs, frame_size, lookahead) ==
    IF ~(frame_size = 1 /\ lookahead = 0) THEN NoModule
    ELSE MultiFrameModule_init("CRM", num_freqs, 1, 0, FALSE)

MfWf_init(num_freqs, frame_size, lookahead) ==
    MultiFrameModule_init("MfWf", num_freqs, frame_size, lookahead, FALSE)

MfMvdr_init(num_freqs, frame_size, lookahead, eps) ==
    [MultiFrameModule_init("MfMvdr", num_freqs, frame_size, lookahead, FALSE)
        EXCEPT !.eps = eps]

\* nn.ConstantPad2d((0, 0, before, after), 0.0) on [B, C, T, F]: the time axis
\* gets `before` zero frames in front and `after` behind; a negative width
\* crops, and cropping more frames than there are is an error.
ConstantPad2d(x, before, after) ==
    LET T == x.shape[3]
    IN  IF (before < 0 /\ -before > T) \/ (after < 0 /\ -after > T)
           \/ T + before + after < 0
        THEN Error
        ELSE LET s == <<x.shape[1], x.shape[2], T + before + after, x.shape[4]>>
             IN  Tensor(s, [i \in Idx4(s) |->
                     IF i[3] - before \in 0 .. T - 1
                     THEN x.v[<<i[1], i[2], i[3] - before, i[4]>>]
                     ELSE Zero])

\* Tensor.unfold(2, size, 1) on [B, C, T, F]: [B, C, T - size + 1, F, size]
unfold(x, size) ==
    IF x.shape[3] < size THEN Error
    ELSE LET s == <<x.shape[1], x.shape[2], x.shape[3] - size + 1, x.shape[4], size>>
         IN  Tensor(s, [i \in Idx5(s) |-> x.v[<<i[1], i[2], i[3] + i[5], i[4]>>]])

\* Tensor.unsqueeze(-1) on [B, C, T, F]
unsqueeze(x) ==
    LET s == <<x.shape[1], x.shape[2], x.shape[3], x.shape[4], 1>>
    IN  Tensor(s, [i \in Idx5(s) |-> x.v[<<i[1], i[2], i[3], i[4]>>]])

\* MultiFrameModule.spec_unfold: [B, C, T, F] -> [B, C, T, F, N]
spec_unfold(m, spec) ==
    IF m.need_unfold
    THEN LET p == ConstantPad2d(spec, m.pad[1], m.pad[2])
         IN  IF p.err THEN Error ELSE unfold(p, m.frame_size)
    ELSE unsqueeze(spec)

\* MultiFrameModule.spec_unfold_real on a real [B, C, T, F, 2]:
\* ConstantPad3d pads the time axis, unfold(-3, N, 1) gives [B, C, T, F, 2, N]
\* and the permutation [B, C, N, T, F, 2]; without unfolding the result is
\* [B, C, T, F, 2, 1].
spec_unfold_real(m, spec) ==
    IF m.need_unfold
    THEN LET T == spec.shape[3]
             before == m.pad[1]
             after == m.pad[2]
             Tp == T + before + after
         IN  IF (before < 0 /\ -before > T) \/ (after < 0 /\ -after > T) \/ Tp < 0
                \/ Tp < m.frame_size
             THEN Error
             ELSE LET s == <<spec.shape[1], spec.shape[2], m.frame_size,
                             Tp - m.frame_size + 1, spec.shape[4], 2>>
                  IN  Tensor(s, [i \in Idx6(s) |->
                          LET t == i[4] + i[3] - before
                          IN  IF t \in 0 .. T - 1
                              THEN spec.v[<<i[1], i[2], t, i[5], i[6]>>]
                              ELSE Zero])
    ELSE LET s == <<spec.shape[1], spec.shape[2], spec.shape[3], spec.shape[4], 2, 1>>
         IN  Tensor(s, [i \in Idx6(s) |-> spec.v[<<i[1], i[2], i[3], i[4], i[5]>>]])

\* Tensor.narrow(-2, 0, length) on a 5-axis tensor
narrow(x, length) ==
    IF length > x.shape[4] THEN Error
    ELSE LET s == <<x.shape[1], x.shape[2], x.shape[3], length, x.shape[5]>>
         IN  Tensor(s, [i \in Idx5(s) |-> x.v[i]])

\* Tensor.narrow(-2, 0, length) on a 6-axis tensor
narrow6(x, length) ==
    IF length > x.shape[5] THEN Error
    ELSE LET s == <<x.shape[1], x.shape[2], x.shape[3], x.shape[4], length, x.shape[6]>>
         IN  Tensor(s, [i \in Idx6(s) |-> x.v[i]])

\* ------------------------------------------------------------ deep filter
\* coefs.view(coefs.shape[0], -1, frame_size, *coefs.shape[2:]) on a complex
\* [B, C*N, T, F]: element [b, c, n, t, f] is coefs[b, c*N + n, t, f]
view_coefs(coefs, frame_size) ==
    IF coefs.shape[2] % frame_size # 0 THEN Error
    ELSE LET s == <<coefs.shape[1], coefs.shape[2] \div frame_size, frame_size,
                    coefs.shape[3], coefs.shape[4]>>
         IN  Tensor(s, [i \in Idx5(s) |->
                 coefs.v[<<i[1], i[2] * frame_size + i[3], i[4], i[5]>>]])

\* the same view on a real [B, C*N, T, F, 2]: [B, C, N, T, F, 2]
view_coefs_real(coefs, frame_size) ==
    IF coefs.shape[2] % frame_size # 0 THEN Error
    ELSE LET s == <<coefs.shape[1], coefs.shape[2] \div frame_size, frame_size,
                    coefs.shape[3], coefs.shape[4], 2>>
         IN  Tensor(s, [i \in Idx6(s) |->
                 coefs.v[<<i[1], i[2] * frame_size + i[3], i[4], i[5], i[6]>>]])

\* a conj() that leaves the taps as they are
conj_dropped(x) == x

\* Tensor.conj() of a complex tensor
conj(x) == Tensor(x.shape, [i \in DOMAIN x.v |-> CConj(x.v[i])])

\* Tensor.conj() of a real tensor returns the tensor itself
conj_real(x) == x

\* df: torch.einsum("...tfn,...ntf->...tf", spec, coefs)
df(spec, coefs) ==
    IF <<spec.shape[1], spec.shape[2], spec.shape[5], spec.shape[3], spec.shape[4]>>
           # coefs.shape
    THEN Error
    ELSE LET s == <<spec.shape[1], spec.shape[2], spec.shape[3], spec.shape[4]>>
             N == spec.shape[5]
         IN  Tensor(s, [i \in Idx4(s) |->
                 CSum([n \in 0 .. N - 1 |->
                          CMul(spec.v[<<i[1], i[2], i[3], i[4], n>>],
                               coefs.v[<<i[1], i[2], n, i[3], i[4]>>])], N)])

\* df_real on spec [B, C, N, T, F, 2] and coefs [B, C, N, T, F, 2]
df_real(spec, coefs) ==
    IF spec.shape[6] < 2 \/ spec.shape # coefs.shape THEN Error
    ELSE LET s == <<spec.shape[1], spec.shape[2], spec.shape[4], spec.shape[5], 2>>
             N == spec.shape[3]
             prod(i, ks, kc) ==
                 CSum([n \in 0 .. N - 1 |->
                          CMul(spec.v[<<i[1], i[2], n, i[3], i[4], ks>>],
                               coefs.v[<<i[1], i[2], n, i[3], i[4], kc>>])], N)
         IN  Tensor(s, [i \in Idx5(s) |->
                 IF i[5] = 0 THEN CSub(prod(i, 0, 0), prod(i, 1, 1))
                 ELSE CAdd(prod(i, 0, 1), prod(i, 1, 0))])

\* spec[..., : num_freqs, :] = value, on the complex view of spec; value is
\* broadcast to the slice [B, C, T, min(num_freqs, F)] or the write fails
setitem(spec, num_freqs, value) ==
    LET K == IF num_freqs < spec.shape[4] THEN num_freqs ELSE spec.shape[4]
        target == <<spec.shape[1], spec.shape[2], spec.shape[3], K>>
        fits == \A d \in 1 .. 4 : value.shape[d] = target[d] \/ value.shape[d] = 1
        at(i, d) == IF value.shape[d] = 1 THEN 0 ELSE i[d]
    IN  IF value.err \/ ~fits THEN Error
        ELSE Tensor(spec.shape, [i \in Idx4(spec.shape) |->
                 IF i[4] < K THEN value.v[<<at(i, 1), at(i, 2), at(i, 3), at(i, 4)>>]
                 ELSE spec.v[i]])

\* What a call leaves behind: kind "ok" or "error", the returned tensor `out`,
\* whether it is the caller's own buffer (`alias`), and the caller's buffer
\* after the call (`buf`).
Raised(spec) == [kind |-> "error", out |-> Error, alias |-> FALSE, buf |-> spec]
Returned(out, alias, buf) == [kind |-> "ok", out |-> out, alias |-> alias, buf |-> buf]

\* the tail shared by DF.forward, MfWf.forward and MfMvdr.forward:
\* if self.training: spec = spec.clone(); spec[..., :K, :] = ...; return spec
write_back(m, spec, spec_f) ==
    LET w == setitem(spec, m.num_freqs, spec_f)
    IN  IF w.err THEN Raised(spec)
        ELSE IF m.training THEN Returned(w, FALSE, spec)
        ELSE Returned(w, TRUE, w)

\* DF.forward(spec, coefs): spec [B, C, T, F, 2], coefs [B, C*N, T, K, 2],
\* both held as their complex views
DF_forward(m, spec, coefs) ==
    LET spec_u == spec_unfold(m, spec)
        spec_f == IF spec_u.err THEN Error ELSE narrow(spec_u, m.num_freqs)
        cv == view_coefs(coefs, m.frame_size)
        cc == IF cv.err THEN Error ELSE IF m.conj THEN conj(cv) ELSE cv
        f == IF spec_f.err \/ cc.err THEN Error ELSE df(spec_f, cc)
    IN  IF f.err THEN Raised(spec) ELSE write_back(m, spec, f)

\* DFreal.forward(spec, coefs): real tensors; the write is always in place
DFreal_forward(m, spec, coefs) ==
    LET spec_r == view_as_real(spec)
        spec_u == spec_unfold_real(m, spec_r)
        spec_f == IF spec_u.err THEN Error ELSE narrow6(spec_u, m.num_freqs)
        cv == view_coefs_real(view_as_real(coefs), m.frame_size)
        cc == IF cv.err THEN Error ELSE IF m.conj THEN conj_real(cv) ELSE cv
        f == IF spec_f.err \/ cc.err THEN Error ELSE df_real(spec_f, cc)
        w == IF f.err THEN Error ELSE setitem(spec, m.num_freqs, view_as_complex(f))
    IN  IF w.err THEN Raised(spec) ELSE Returned(w, TRUE, w)

\* CRM defines forward_impl only: forward is nn.Module's, which raises
\* NotImplementedError
CRM_forward(m, spec, coefs) == Raised(spec)

\* CRM.forward_impl(spec, coefs): spec.squeeze(-1).mul(coefs) on complex
\* tensors, spec [B, C, T, F, 1]
CRM_forward_impl(spec, coefs) ==
    LET s == <<spec.shape[1], spec.shape[2], spec.shape[3], spec.shape[4]>>
    IN  IF spec.shape[5] # 1 \/ s # coefs.shape THEN Error
        ELSE Tensor(s, [i \in Idx4(s) |->
                 CMul(spec.v[<<i[1], i[2], i[3], i[4], 0>>], coefs.v[i])])

\* ------------------------------------------------- multi-frame Wiener / MVDR
\* torch.view_as_complex(ifc.unflatten(3, (N, 2))) on a real [B, T, F, N*2]:
\* the complex [B, T, F, N]
unflatten_ifc(ifc, N) ==
    IF ifc.shape[4] # N * 2 THEN Error
    ELSE LET s == <<ifc.shape[1], ifc.shape[2], ifc.shape[3], N>>
         IN  Tensor(s, [i \in Idx4(s) |->
                 CPack(ifc.v[<<i[1], i[2], i[3], 2 * i[4]>>],
                       ifc.v[<<i[1], i[2], i[3], 2 * i[4] + 1>>])])

\* torch.view_as_complex(iRxx.unflatten(3, (N, N, 2))) on a real
\* [B, T, F, N*N*2]: the complex [B, T, F, N, N]
unflatten_mat(iRxx, N) ==
    IF iRxx.shape[4] # N * N * 2 THEN Error
    ELSE LET s == <<iRxx.shape[1], iRxx.shape[2], iRxx.shape[3], N, N>>
         IN  Tensor(s, [i \in Idx5(s) |->
                 CPack(iRxx.v[<<i[1], i[2], i[3], (i[4] * N + i[5]) * 2>>],
                       iRxx.v[<<i[1], i[2], i[3], (i[4] * N + i[5]) * 2 + 1>>])])

\* torch.einsum("...nm,...m->...n", mat, vec): mat [B, T, F, N, N], vec [B, T, F, N]
matvec(mat, vec) ==
    IF <<mat.shape[1], mat.shape[2], mat.shape[3], mat.shape[5]>> # vec.shape THEN Error
    ELSE LET s == <<mat.shape[1], mat.shape[2], mat.shape[3], mat.shape[4]>>
             M == mat.shape[5]
         IN  Tensor(s, [i \in Idx4(s) |->
                 CSum([k \in 0 .. M - 1 |->
                          CMul(mat.v[<<i[1], i[2], i[3], i[4], k>>],
                               vec.v[<<i[1], i[2], i[3], k>>])], M)])

\* torch.einsum("...n,...n->...", ifc.conj(), numerator): [B, T, F]
vecdot_conj(ifc, numerator) ==
    LET s == <<ifc.shape[1], ifc.shape[2], ifc.shape[3]>>
        N == ifc.shape[4]
    IN  [i \in (0 .. s[1] - 1) \X (0 .. s[2] - 1) \X (0 .. s[3] - 1) |->
            CSum([n \in 0 .. N - 1 |->
                     CMul(CConj(ifc.v[<<i[1], i[2], i[3], n>>]),
                          numerator.v[<<i[1], i[2], i[3], n>>])], N)]

\* MultiFrameModule.apply_coefs: torch.einsum("...n,...n->...", spec, coefs)
\* with spec [B, C, T, F, N] and coefs [B', T', F', N].  The axes under the
\* ellipsis are aligned from the right, so coefs is read as [1, B', T', F', N]
\* and its batch axis meets the channel axis of spec; sizes broadcast when
\* equal or 1.
apply_coefs(spec, coefs) ==
    LET a == <<spec.shape[1], spec.shape[2], spec.shape[3], spec.shape[4]>>
        b == <<1, coefs.shape[1], coefs.shape[2], coefs.shape[3]>>
        fits == /\ spec.shape[5] = coefs.shape[4]
                /\ \A d \in 1 .. 4 : a[d] = b[d] \/ a[d] = 1 \/ b[d] = 1
        bc(d) == IF a[d] = 1 THEN b[d] ELSE a[d]
        s == <<bc(1), bc(2), bc(3), bc(4)>>
        ia(i, d) == IF a[d] = 1 THEN 0 ELSE i[d]
        ib(i, d) == IF b[d] = 1 THEN 0 ELSE i[d]
        N == spec.shape[5]
    IN  IF ~fits THEN Error
        ELSE Tensor(s, [i \in Idx4(s) |->
                 CSum([n \in 0 .. N - 1 |->
                          CMul(spec.v[<<ia(i, 1), ia(i, 2), ia(i, 3), ia(i, 4), n>>],
                               coefs.v[<<ib(i, 2), ib(i, 3), ib(i, 4), n>>])], N)])

\* MfWf.forward(spec, ifc, iRxx)
MfWf_forward(m, spec, ifc, iRxx) ==
    LET spec_u == spec_unfold(m, spec)
        mat == unflatten_mat(iRxx, m.frame_size)
        vec == unflatten_ifc(ifc, m.frame_size)
        spec_f == IF spec_u.err THEN Error ELSE narrow(spec_u, m.num_freqs)
        w == IF mat.err \/ vec.err THEN Error ELSE matvec(mat, vec)
        f == IF spec_f.err \/ w.err THEN Error ELSE apply_coefs(spec_f, w)
    IN  IF f.err THEN Raised(spec) ELSE write_back(m, spec, f)

\* the weights of MfMvdr.forward:
\* w = numerator / (denumerator.real.unsqueeze(-1) + self.eps)
mvdr_weights(m, vec, mat) ==
    LET numerator == matvec(mat, vec)
        denumerator == vecdot_conj(vec, numerator)
    IN  IF numerator.err THEN Error
        ELSE Tensor(numerator.shape, [i \in Idx4(numerator.shape) |->
                 CDivReal(numerator.v[i],
                          CAdd(CReal(denumerator[<<i[1], i[2], i[3]>>]), m.eps))])

\* MfMvdr.forward(spec, ifc, iRnn)
MfMvdr_forward(m, spec, ifc, iRnn) ==
    LET spec_u == spec_unfold(m, spec)
        mat == unflatten_mat(iRnn, m.frame_size)
        vec == unflatten_ifc(ifc, m.frame_size)
        spec_f == IF spec_u.err THEN Error ELSE narrow(spec_u, m.num_freqs)
        w == IF mat.err \/ vec.err THEN Error ELSE mvdr_weights(m, vec, mat)
        f == IF spec_f.err \/ w.err THEN Error ELSE apply_coefs(spec_f, w)
    IN  IF f.err THEN Raised(spec) ELSE write_back(m, spec, f)

\* -------------------------------------------------------------- as_windowed
\* Python's list index: a negative index counts from the end (0-based result)
PyIndex(len, i) == IF i < 0 THEN len + i ELSE i

\* list.insert(i, v): v goes in front of the element at 0-based position i
ListInsert(l, i, v) ==
    LET k == PyIndex(Len(l), i)
    IN  SubSeq(l, 1, k) \o <<v>> \o SubSeq(l, k + 1, Len(l))

\* Tensor.as_strided(shape, stride) over x's own storage (offset 0): an error
\* when a size is negative or an element would lie outside the storage
as_strided(storage, shape, stride) ==
    LET empty == \E d \in 1 .. 3 : shape[d] = 0
        last == (shape[1] - 1) * stride[1] + (shape[2] - 1) * stride[2]
                    + (shape[3] - 1) * stride[3]
    IN  IF \E d \in 1 .. 3 : shape[d] < 0 THEN Error
        ELSE IF ~empty /\ last >= Len(storage) THEN Error
        ELSE Tensor(shape,
                 [i \in (0 .. shape[1] - 1) \X (0 .. shape[2] - 1) \X (0 .. shape[3] - 1) |->
                     storage[i[1] * stride[1] + i[2] * stride[2] + i[3] * stride[3] + 1]])

\* as_windowed(x, window_length, step, dim) on a contiguous x of shape
\* [rows, len] that owns its storage; dim is 1 (the default), 0 or -1
as_windowed(x, window_length, step, dim) ==
    LET shape0 == x.shape
        stride0 == <<x.shape[2], 1>>
        d == PyIndex(2, dim) + 1
        \* shape[dim] = int(shape[dim] - window_length + step / step)
        shape1 == [shape0 EXCEPT ![d] = shape0[d] - window_length + (step \div step)]
        shape2 == IF dim > 0 THEN ListInsert(shape1, dim + 1, window_length)
                  ELSE IF dim = -1 THEN shape1 \o <<window_length>>
                  ELSE ListInsert(shape1, dim, window_length)
        stride2 == IF dim > 0 THEN ListInsert(stride0, dim + 1, stride0[d])
                   ELSE IF dim = -1 THEN stride0 \o <<stride0[d]>>
                   ELSE ListInsert(stride0, dim, stride0[d])
        \* stride[dim] = stride[dim] * step, on the list after the insertion
        e == PyIndex(3, dim) + 1
        stride3 == [stride2 EXCEPT ![e] = stride2[e] * step]
    IN  as_strided(x.v, shape2, stride3)

\* ------------------------------------------------------------------ inputs
\* position of element i of a contiguous tensor of shape s
Flat4(s, i) == ((i[1] * s[2] + i[2]) * s[3] + i[3]) * s[4] + i[4]

GenVal(seed, k) ==
    Cx((((seed + 1) * 3 + 2 * k + (k \div 3)) % 5) - 2, ((seed * 2 + k + (k \div 2)) % 3) - 1)

\* a complex tensor of shape s (a spectrogram, or deep-filter coefficients)
GenTensor(s, seed) == Tensor(s, [i \in Idx4(s) |-> GenVal(seed, Flat4(s, i))])

\* a real [B, T, F, N*2] inter-frame correlation vector
GenIfc(s, seed) ==
    Tensor(s, [i \in Idx4(s) |-> Cx(((seed + 2 * Flat4(s, i) + (i[4] \div 2)) % 4) - 1, 0)])

\* a real [B, T, F, N*N*2] inverse covariance matrix: an even seed gives a
\* Hermitian, diagonally dominant matrix per bin, an odd seed a general one
GenMat(s, N, seed) ==
    Tensor(s, [i \in Idx4(s) |->
        LET n == (i[4] \div 2) \div N
            k == (i[4] \div 2) % N
            im == (i[4] % 2) = 1
        IN  IF seed % 2 = 0
            THEN IF n = k THEN (IF im THEN Zero ELSE Cx(N + 1 + ((i[2] + i[3]) % 2), 0))
                 ELSE IF ~im THEN Cx(1, 0)
                 ELSE IF n < k THEN Cx(1, 0) ELSE Cx(-1, 0)
            ELSE Cx(((seed + Flat4(s, i) + n) % 3) - 1, 0)])

NoTensor == Error

\* ------------------------------------------------------------------- state
VARIABLES
    pc,      \* "new", "built" (a module was constructed) or "failed"
    m,       \* the module
    spec,    \* the caller's spectrogram buffer, [B, C, T, F, 2] as complex
    calls,   \* the calls of forward made so far, oldest first
    unf,     \* what the last spec_unfold / spec_unfold_real call returned
    win      \* the last as_windowed call: its arguments and result

vars == <<pc, m, spec, calls, unf, win>>

Shapes == Batches \X Chans \X {MaxT} \X Freqs
Frames == 1 .. MaxFrame
\* the valid lookaheads 0 .. N-1 of frame size N, and -1 and N
Lookaheads(N) == -1 .. N
Seeds == 0 .. MaxSeed

NoWin == [x |-> NoTensor, window_length |-> 0, step |-> 0, dim |-> 0, called |-> FALSE,
          out |-> NoTensor]
NoUnf == [op |-> "none", in |-> NoTensor, out |-> NoTensor]

Init ==
    /\ pc = "new"
    /\ m = NoModule
    /\ spec \in {GenTensor(s, 0) : s \in Shapes}
    /\ calls = <<>>
    /\ unf = NoUnf
    /\ win = NoWin

\* ------------------------------------------------------------ construction
Built(mod) ==
    /\ pc = "new"
    /\ m' = mod
    /\ pc' = IF mod = NoModule THEN "failed" ELSE "built"
    /\ UNCHANGED <<spec, calls, unf, win>>

ConstructDF ==
    \E K \in NumFreqs, N \in Frames, c \in BOOLEAN : \E l \in Lookaheads(N) :
        Built(DF_init(K, N, l, c))

ConstructDFreal ==
    \E K \in NumFreqs, N \in Frames, c \in BOOLEAN : \E l \in Lookaheads(N) :
        Built(DFreal_init(K, N, l, c))

ConstructCRM ==
    \E K \in NumFreqs, N \in Frames : \E l \in Lookaheads(N) : Built(CRM_init(K, N, l))

ConstructMfWf ==
    \E K \in NumFreqs, N \in Frames : \E l \in Lookaheads(N) : Built(MfWf_init(K, N, l))

ConstructMfMvdr ==
    \E K \in NumFreqs, N \in Frames, e \in EpsInvs : \E l \in Lookaheads(N) :
        Built(MfMvdr_init(K, N, l, Norm(1, 0, e)))

\* nn.Module.train(mode): sets self.training
SetTraining(mode) ==
    /\ pc = "built"
    /\ calls = <<>>
    /\ m.training # mode
    /\ m' = [m EXCEPT !.training = mode]
    /\ UNCHANGED <<pc, spec, calls, unf, win>>

Train == SetTraining(TRUE)
Eval == SetTraining(FALSE)

\* ------------------------------------------------------------------ forward
Call(op, seed, a, r) ==
    [op |-> op, m |-> m, in |-> spec, seed |-> seed, args |-> a,
     kind |-> r.kind, out |-> r.out, alias |-> r.alias]

\* a forward that clears self.conj once it has conjugated the coefficients
Record_clearing_conj(op, seed, a, r) ==
    /\ calls' = Append(calls, Call(op, seed, a, r))
    /\ spec' = r.buf
    /\ m' = [m EXCEPT !.conj = FALSE]
    /\ UNCHANGED <<pc, unf, win>>

\* forward assigns no attribute of self
Record(op, seed, a, r) ==
    /\ calls' = Append(calls, Call(op, seed, a, r))
    /\ spec' = r.buf
    /\ UNCHANGED <<pc, m, unf, win>>

\* a session is a call and one repetition of it
CanCall(variant) == pc = "built" /\ m.variant = variant /\ Len(calls) < 2

\* the first call draws its coefficients / statistics; a later call passes
\* the same ones again
ArgSeeds == IF calls = <<>> THEN Seeds ELSE {calls[1].seed}

CoefShape == <<spec.shape[1], spec.shape[2] * m.frame_size, spec.shape[3], m.num_freqs>>
IfcShape == <<spec.shape[1], spec.shape[3], m.num_freqs, m.frame_size * 2>>
MatShape == <<spec.shape[1], spec.shape[3], m.num_freqs, m.frame_size * m.frame_size * 2>>

ForwardDF ==
    /\ CanCall("DF")
    /\ \E seed \in ArgSeeds :
           LET coefs == GenTensor(CoefShape, seed)
           IN  Record("forward", seed, [coefs |-> coefs, ifc |-> NoTensor, mat |-> NoTensor],
                      DF_forward(m, spec, coefs))

ForwardDFreal ==
    /\ CanCall("DFreal")
    /\ \E seed \in ArgSeeds :
           LET coefs == GenTensor(CoefShape, seed)
           IN  Record("forward", seed, [coefs |-> coefs, ifc |-> NoTensor, mat |-> NoTensor],
                      DFreal_forward(m, spec, coefs))

ForwardCRM ==
    /\ CanCall("CRM")
    /\ \E seed \in ArgSeeds :
           LET coefs == GenTensor(CoefShape, seed)
           IN  Record("forward", seed, [coefs |-> coefs, ifc |-> NoTensor, mat |-> NoTensor],
                      CRM_forward(m, spec, coefs))

\* a caller that reaches past forward: forward_impl on the unfolded spectrogram
ForwardImplCRM ==
    /\ CanCall("CRM")
    /\ \E seed \in ArgSeeds :
           LET coefs == GenTensor(<<spec.shape[1], spec.shape[2], spec.shape[3],
                                    spec.shape[4]>>, seed)
               out == CRM_forward_impl(spec_unfold(m, spec), coefs)
           IN  Record("forward_impl", seed, [coefs |-> coefs, ifc |-> NoTensor, mat |-> NoTensor],
                      IF out.err THEN Raised(spec) ELSE Returned(out, FALSE, spec))

ForwardMfWf ==
    /\ CanCall("MfWf")
    /\ \E seed \in ArgSeeds :
           LET ifc == GenIfc(IfcShape, seed)
               mat == GenMat(MatShape, m.frame_size, seed)
           IN  Record("forward", seed, [coefs |-> NoTensor, ifc |-> ifc, mat |-> mat],
                      MfWf_forward(m, spec, ifc, mat))

ForwardMfMvdr ==
    /\ CanCall("MfMvdr")
    /\ \E seed \in ArgSeeds :
           LET ifc == GenIfc(IfcShape, seed)
               mat == GenMat(MatShape, m.frame_size, seed)
           IN  Record("forward", seed, [coefs |-> NoTensor, ifc |-> ifc, mat |-> mat],
                      MfMvdr_forward(m, spec, ifc, mat))

\* the caller puts the spectrogram of its first call back into its buffer
Reload ==
    /\ Len(calls) = 1
    /\ spec # calls[1].in
    /\ spec' = calls[1].in
    /\ UNCHANGED <<pc, m, calls, unf, win>>

Next ==
    \/ ConstructCRM \/ ConstructDF \/ ConstructDFreal \/ ConstructMfWf \/ ConstructMfMvdr
    \/ Train \/ Eval
    \/ ForwardDF \/ ForwardDFreal \/ ForwardCRM \/ ForwardImplCRM
    \/ ForwardMfWf \/ ForwardMfMvdr
    \/ Reload

Spec == Init /\ [][Next]_vars

\* ---------------------------------------------------------------- unfolding
SpecUnfold ==
    /\ pc = "built"
    /\ unf' = [op |-> "spec_unfold", in |-> spec, out |-> spec_unfold(m, spec)]
    /\ UNCHANGED <<pc, m, spec, calls, win>>

SpecUnfoldReal ==
    /\ pc = "built"
    /\ unf' = [op |-> "spec_unfold_real", in |-> spec,
               out |-> spec_unfold_real(m, view_as_real(spec))]
    /\ UNCHANGED <<pc, m, spec, calls, win>>

NextU ==
    \/ ConstructDF \/ ConstructDFreal \/ ConstructCRM \/ ConstructMfWf \/ ConstructMfMvdr
    \/ SpecUnfold \/ SpecUnfoldReal

SpecU == Init /\ [][NextU]_vars

\* ---------------------------------------------------------------- windowing
\* a contiguous [rows, len] tensor that owns its storage
GenRows(rows, len, seed) ==
    [err |-> FALSE, shape |-> <<rows, len>>,
     v |-> [o \in 1 .. rows * len |-> 10 * seed + o]]

AsWindowed ==
    /\ ~win.called
    /\ win' = [win EXCEPT !.called = TRUE,
                          !.out = as_windowed(win.x, win.window_length, win.step, win.dim)]
    /\ UNCHANGED <<pc, m, spec, calls, unf>>

InitW ==
    /\ pc = "new"
    /\ m = NoModule
    /\ spec = NoTensor
    /\ calls = <<>>
    /\ unf = NoUnf
    /\ win \in {[x |-> GenRows(rows, len, seed), window_length |-> L, step |-> S,
                  dim |-> dim, called |-> FALSE, out |-> NoTensor] :
                     rows \in 1 .. MaxRows, len \in 1 .. MaxLen, L \in 1 .. MaxLen,
                     S \in 1 .. MaxStep, dim \in {1, 0, -1}, seed \in Seeds}

SpecW == InitW /\ [][AsWindowed]_vars

\* ------------------------------------------------------------------ claims
ValidConfig(mod) == 0 <= mod.lookahead /\ mod.lookahead < mod.frame_size

Forwards == {i \in 1 .. Len(calls) : calls[i].op = "forward"}

\* the spectrogram x at time t, zero outside 0 .. T-1
At(x, b, c, t, f) == IF t \in 0 .. x.shape[3] - 1 THEN x.v[<<b, c, t, f>>] ELSE Zero

\* tap n of the deep-filter coefficients for bin (b, c, t, f)
Tap(call, b, c, n, t, f) ==
    LET z == call.args.coefs.v[<<b, c * call.m.frame_size + n, t, f>>]
    IN  IF call.m.conj THEN CConj(z) ELSE z

\* sum over n of x[t - (N-1-l) + n, f] * tap(n)
DeepFilterSum(call, i) ==
    LET N == call.m.frame_size
        l == call.m.lookahead
    IN  CSum([n \in 0 .. N - 1 |->
                 CMul(At(call.in, i[1], i[2], i[3] - (N - 1 - l) + n, i[4]),
                      Tap(call, i[1], i[2], n, i[3], i[4]))], N)

\* C1: a DF with a valid lookahead and num_freqs <= F returns, and every
\* output bin (b, c, t, f) with f < num_freqs is the sum over n of
\* x[t-(N-1-l)+n, f] * c[n, t, f], with x zero outside 0..T-1 and c conjugated
\* exactly when conj is set.
C1_DeepFilterSum ==
    \A k \in Forwards :
        LET call == calls[k]
        IN  (call.m.variant = "DF" /\ ValidConfig(call.m)
               /\ call.m.num_freqs <= call.in.shape[4])
            => /\ call.kind = "ok"
               /\ \A i \in Idx4(call.in.shape) :
                      i[4] < call.m.num_freqs => call.out.v[i] = DeepFilterSum(call, i)

\* a DF call with three taps, one frame of lookahead and conjugation, whose
\* result differs from its input
C1_Witness ==
    \E k \in Forwards :
        /\ calls[k].m.variant = "DF" /\ calls[k].kind = "ok"
        /\ calls[k].m.frame_size = 3 /\ calls[k].m.lookahead = 1 /\ calls[k].m.conj
        /\ calls[k].in.shape[2] = 2
        /\ calls[k].out # calls[k].in

\* C2: every variant's forward, on a valid configuration with num_freqs <= F,
\* returns a spectrogram of the input's shape whose bins at or above num_freqs
\* equal the input's.
C2_Passthrough ==
    \A k \in Forwards :
        LET call == calls[k]
        IN  (ValidConfig(call.m) /\ call.m.num_freqs <= call.in.shape[4])
            => /\ call.kind = "ok"
               /\ call.out.shape = call.in.shape
               /\ \A i \in Idx4(call.in.shape) :
                      i[4] >= call.m.num_freqs => call.out.v[i] = call.in.v[i]

\* whenever forward returns at all, shape and upper bins are the input's
PassthroughWhenReturned ==
    \A k \in Forwards :
        LET call == calls[k]
        IN  call.kind = "ok"
            => /\ call.out.shape = call.in.shape
               /\ \A i \in Idx4(call.in.shape) :
                      i[4] >= call.m.num_freqs => call.out.v[i] = call.in.v[i]

\* C3: spec_unfold with N > 1 and 0 <= l < N returns T windows per bin, element
\* n of the window at t being the source at t-(N-1-l)+n or zero outside
\* 0..T-1; with N <= 1 it returns the input with a unit frame axis; the source
\* is left as it was.  spec_unfold_real does the same in the layout
\* [B, C, N, T, F, 2].
C3_Unfold ==
    LET x == unf.in
        N == m.frame_size
        l == m.lookahead
        y == unf.out
    IN  (unf.op # "none" /\ ValidConfig(m))
        => /\ spec = x
           /\ ~y.err
           /\ unf.op = "spec_unfold"
              => /\ y.shape = <<x.shape[1], x.shape[2], x.shape[3], x.shape[4], N>>
                 /\ \A i \in Idx5(y.shape) :
                        y.v[i] = At(x, i[1], i[2], i[3] - (N - 1 - l) + i[5], i[4])
           /\ (unf.op = "spec_unfold_real" /\ N > 1)
              => /\ y.shape = <<x.shape[1], x.shape[2], N, x.shape[3], x.shape[4], 2>>
                 /\ \A i \in Idx6(y.shape) :
                        LET z == At(x, i[1], i[2], i[4] - (N - 1 - l) + i[3], i[5])
                        IN  y.v[i] = IF i[6] = 0 THEN CReal(z) ELSE CImag(z)
           /\ (unf.op = "spec_unfold_real" /\ N = 1)
              => /\ y.shape = <<x.shape[1], x.shape[2], x.shape[3], x.shape[4], 2, 1>>
                 /\ \A i \in Idx6(y.shape) :
                        LET z == x.v[<<i[1], i[2], i[3], i[4]>>]
                        IN  y.v[i] = IF i[5] = 0 THEN CReal(z) ELSE CImag(z)

\* spec_unfold ran with three taps and one frame of lookahead: the first
\* window starts with a zero and the last one ends with a zero
C3_Witness ==
    /\ unf.op = "spec_unfold" /\ m.frame_size = 3 /\ m.lookahead = 1
    /\ ~unf.out.err
    /\ unf.out.v[<<0, 0, 0, 0, 0>>] = Zero
    /\ unf.out.v[<<0, 0, 0, 0, 1>>] = unf.in.v[<<0, 0, 0, 0>>]
    /\ unf.out.v[<<0, 0, 0, 0, 1>>] # Zero
    /\ unf.out.v[<<0, 0, unf.in.shape[3] - 1, 0, 2>>] = Zero

\* C4: for every configuration and input, DFreal's result is DF's result for
\* the same configuration and input.
C4_RealEqualsComplex ==
    \A k \in Forwards :
        LET call == calls[k]
            r == DF_forward(call.m, call.in, call.args.coefs)
        IN  (call.m.variant = "DFreal" /\ ValidConfig(call.m)
               /\ call.m.num_freqs <= call.in.shape[4])
            => call.kind = r.kind /\ call.out = r.out

\* with more than one tap and conj off, the two agree
RealEqualsComplexWithoutConj ==
    \A k \in Forwards :
        LET call == calls[k]
            r == DF_forward(call.m, call.in, call.args.coefs)
        IN  (call.m.variant = "DFreal" /\ call.m.frame_size > 1 /\ ~call.m.conj)
            => call.kind = r.kind /\ call.out = r.out

\* C5: in training mode, for every variant, when forward has returned the
\* caller's spectrogram holds the values it held before the call and the
\* returned spectrogram is another buffer.
C5_CopyInTraining ==
    calls # <<>> =>
        LET call == calls[Len(calls)]
        IN  (call.op = "forward" /\ call.kind = "ok" /\ call.m.training)
            => ~call.alias /\ spec = call.in

\* DF, MfWf and MfMvdr do copy in training mode
CopyInTrainingExceptDFreal ==
    calls # <<>> =>
        LET call == calls[Len(calls)]
        IN  (call.op = "forward" /\ call.kind = "ok" /\ call.m.training
               /\ call.m.variant # "DFreal")
            => ~call.alias /\ spec = call.in

Config(mod) == <<mod.num_freqs, mod.frame_size, mod.lookahead, mod.conj, mod.eps>>

ConfigKept == \A k \in 1 .. Len(calls) : Config(calls[k].m) = Config(m)

C7_LookaheadValidated == pc = "built" => ValidConfig(m)

\* C8: forward of a CRM returns, and its result is spec * coefs in every bin.
C8_RatioMaskForward ==
    \A k \in Forwards :
        LET call == calls[k]
        IN  call.m.variant = "CRM"
            => /\ call.kind = "ok"
               /\ \A i \in Idx4(call.in.shape) :
                      call.out.v[i] = CMul(call.in.v[i], call.args.coefs.v[i])

\* forward_impl, called directly on the unfolded spectrogram, is that product
\* (all bins: it has no passthrough), and (1+2i)(3-i) = 5+5i
RatioMaskForwardImpl ==
    /\ CMul(Cx(1, 2), Cx(3, -1)) = Cx(5, 5)
    /\ \A k \in 1 .. Len(calls) :
           LET call == calls[k]
           IN  call.op = "forward_impl"
               => /\ call.kind = "ok"
                  /\ \A i \in Idx4(call.in.shape) :
                         call.out.v[i] = CMul(call.in.v[i], call.args.coefs.v[i])

\* ifc and iRnn of bin (b, t, f), read from the packed real arguments
IfcAt(call, b, t, f, n) ==
    CPack(call.args.ifc.v[<<b, t, f, 2 * n>>], call.args.ifc.v[<<b, t, f, 2 * n + 1>>])

MatAt(call, b, t, f, n, k) ==
    LET N == call.m.frame_size
    IN  CPack(call.args.mat.v[<<b, t, f, (n * N + k) * 2>>],
              call.args.mat.v[<<b, t, f, (n * N + k) * 2 + 1>>])

NumeratorAt(call, b, t, f, n) ==
    LET N == call.m.frame_size
    IN  CSum([k \in 0 .. N - 1 |-> CMul(MatAt(call, b, t, f, n, k), IfcAt(call, b, t, f, k))], N)

\* conj(ifc) . numerator
QuadraticAt(call, b, t, f) ==
    LET N == call.m.frame_size
    IN  CSum([n \in 0 .. N - 1 |->
                 CMul(CConj(IfcAt(call, b, t, f, n)), NumeratorAt(call, b, t, f, n))], N)

WeightAt(call, b, t, f, n) ==
    CDivReal(NumeratorAt(call, b, t, f, n),
             CAdd(CReal(QuadraticAt(call, b, t, f)), call.m.eps))

\* conj(ifc) . w
GainAt(call, b, t, f) ==
    LET N == call.m.frame_size
    IN  CSum([n \in 0 .. N - 1 |->
                 CMul(CConj(IfcAt(call, b, t, f, n)), WeightAt(call, b, t, f, n))], N)

Hermitian(call, b, t, f) ==
    \A n, k \in 0 .. call.m.frame_size - 1 :
        MatAt(call, b, t, f, n, k) = CConj(MatAt(call, b, t, f, k, n))

\* Hermitian iRnn and conj(ifc) . iRnn . ifc >= 1
WellConditioned(call, b, t, f) ==
    LET q == QuadraticAt(call, b, t, f)
    IN  Hermitian(call, b, t, f) /\ q[2] = 0 /\ q[1] >= q[3]

\* |z| <= |r| for a real r
AtMost(z, r) ==
    (z[1] * z[1] + z[2] * z[2]) * r[3] * r[3] <= r[1] * r[1] * z[3] * z[3]

MvdrBin(call, i) ==
    LET N == call.m.frame_size
        l == call.m.lookahead
    IN  /\ call.out.v[i] =
               CSum([n \in 0 .. N - 1 |->
                        CMul(At(call.in, i[1], i[2], i[3] - (N - 1 - l) + n, i[4]),
                             WeightAt(call, i[1], i[3], i[4], n))], N)
        /\ WellConditioned(call, i[1], i[3], i[4])
           => AtMost(CSub(GainAt(call, i[1], i[3], i[4]), One), call.m.eps)

\* C9: MfMvdr's forward returns, every filtered bin is the sum over n of
\* window[n] * w[n] with w = (iRnn ifc) / (Re(conj(ifc) . iRnn ifc) + eps) of
\* that bin, and for a well-conditioned bin |conj(ifc) . w - 1| <= eps.
C9_Mvdr ==
    \A k \in Forwards :
        LET call == calls[k]
        IN  (call.m.variant = "MfMvdr" /\ ValidConfig(call.m)
               /\ call.m.num_freqs <= call.in.shape[4])
            => /\ call.kind = "ok"
               /\ \A i \in Idx4(call.in.shape) :
                      i[4] < call.m.num_freqs => MvdrBin(call, i)

\* the same with one batch item: holds
MvdrBatchOne ==
    \A k \in Forwards :
        LET call == calls[k]
        IN  (call.m.variant = "MfMvdr" /\ ValidConfig(call.m)
               /\ call.m.num_freqs <= call.in.shape[4] /\ call.in.shape[1] = 1)
            => /\ call.kind = "ok"
               /\ \A i \in Idx4(call.in.shape) :
                      i[4] < call.m.num_freqs => MvdrBin(call, i)

\* the windowed axis of x and the element of x at position p of that axis
AxisLen == IF win.dim = 0 THEN win.x.shape[1] ELSE win.x.shape[2]

\* window i, element j, at position k of the other axis, in the layout the
\* code returns: [rows, count, L] for dim 1 and -1, [L, count, len] for dim 0
WindowAt(i, j, k) ==
    IF win.dim = 0 THEN win.out.v[<<j, i, k>>] ELSE win.out.v[<<k, i, j>>]

SourceAt(p, k) ==
    IF win.dim = 0 THEN win.x.v[p * win.x.shape[2] + k + 1]
    ELSE win.x.v[k * win.x.shape[2] + p + 1]

Windowed(count) ==
    LET L == win.window_length
        other == IF win.dim = 0 THEN win.x.shape[2] ELSE win.x.shape[1]
    IN  /\ ~win.out.err
        /\ win.out.shape[2] = count
        /\ \A i \in 0 .. count - 1, j \in 0 .. L - 1, k \in 0 .. other - 1 :
               WindowAt(i, j, k) = SourceAt(i * win.step + j, k)

\* C10: as_windowed returns floor((len - L) / S) + 1 windows for every step
\* S >= 1, window i being the source slice [i*S, i*S + L).
C10_WindowCount ==
    (win.called /\ win.window_length <= AxisLen)
    => Windowed((AxisLen - win.window_length) \div win.step + 1)

\* with step 1 it does
WindowCountStepOne ==
    (win.called /\ win.window_length <= AxisLen /\ win.step = 1)
    => Windowed(AxisLen - win.window_length + 1)

====
